---- MODULE Spec2Model ----
(***************************************************************************)
(* Model of src/snake_game.py: the SnakeGame object (snake, food, score,   *)
(* direction, game_over, the curses input delay) driven by the main loop   *)
(* SnakeGame.run, and, in a second specification, by a client calling the  *)
(* methods in any order.                                                   *)
(***************************************************************************)
EXTENDS Integers, Sequences, FiniteSets, TLC

VARIABLES height, width, snake, direction, score, food, game_over, timeout, key, pc

vars == <<height, width, snake, direction, score, food, game_over, timeout, key, pc>>

\* Largest playable window, in cells, the model constructs a game on.
MaxCells == 10

--------------------------------------------------------------------------
\* Direction enum and its (dy, dx) values.
Direction == {"UP", "DOWN", "LEFT", "RIGHT"}

value(d) ==
    CASE d = "UP" -> <<-1, 0>>
      [] d = "DOWN" -> <<1, 0>>
      [] d = "LEFT" -> <<0, -1>>
      [] d = "RIGHT" -> <<0, 1>>

\* Raw keys getch can return: the arrow keys, the letters the code compares
\* against, one unmapped key ("x") and "NONE" for getch's -1 (no key within
\* the delay).
Keys == {"KEY_UP", "KEY_DOWN", "KEY_LEFT", "KEY_RIGHT",
         "w", "W", "s", "S", "a", "A", "d", "D",
         "q", "Q", "r", "R", "x", "NONE"}

\* Value of key while no getch result is being processed.
Unread == "-"

\* A blocking getch always returns a key.
BlockingKeys == Keys \ {"NONE"}

\* Playable window: the screen minus borders and score rows.
game_height == height - 4
game_width == width - 2

Cells == {<<y, x>> : y \in 0..(game_height - 1), x \in 0..(game_width - 1)}

Range(s) == {s[i] : i \in 1..Len(s)}

\* deque.appendleft and deque.pop
\* appendleft that adds at the tail end.
appendleft_AtTail(s, e) == s \o <<e>>

appendleft(s, e) == <<e>> \o s

\* pop that leaves the tail in place.
pop_KeepTail(s) == s

pop(s) == SubSeq(s, 1, Len(s) - 1)

\* The snake reset_game builds, head first.
StartSnake(h, w) ==
    LET start_y == (h - 4) \div 2
        start_x == (w - 2) \div 2
    IN  <<<<start_y, start_x>>, <<start_y, start_x - 1>>, <<start_y, start_x - 2>>>>

\* Terminals (rows, columns) whose game window holds the start snake and
\* has at most MaxCells cells.
Screens ==
    {s \in (1..(MaxCells + 4)) \X (1..(MaxCells + 2)) :
        /\ s[1] - 4 >= 1
        /\ (s[2] - 2) \div 2 - 2 >= 0
        /\ (s[1] - 4) * (s[2] - 2) <= MaxCells}

\* FreeCells without the "not in self.snake" test.
FreeCells_NoSnakeTest(s) == Cells

\* The cells spawn_food's resampling loop can settle on for snake s.
FreeCells(s) == Cells \ Range(s)

\* stdscr.nodelay(flag): the input delay becomes 0 (poll) or -1 (block).
nodelay(flag) == IF flag = 1 THEN 0 ELSE -1

\* speed that divides the score by 500 instead of 50.
speed_Divisor500(sc) == IF 100 - sc \div 500 > 50 THEN 100 - sc \div 500 ELSE 50

\* The speed rule applied after eating.
speed(sc) == IF 100 - sc \div 50 > 50 THEN 100 - sc \div 50 ELSE 50

--------------------------------------------------------------------------
\* SnakeGame.spawn_food for the snake s; control continues at ret.  With no
\* free cell every sample is rejected and the loop never exits: control
\* stays in spawn_food and food keeps its value.
spawn_food(s, ret) ==
    IF FreeCells(s) = {}
    THEN /\ pc' = "spawn_food"
         /\ UNCHANGED food
    ELSE /\ \E c \in FreeCells(s) : food' = c
         /\ pc' = ret

\* reset_game that forgets to reset the direction.
reset_game_KeepDirection(ret) ==
    /\ snake' = StartSnake(height, width)
    /\ UNCHANGED direction
    /\ score' = 0
    /\ spawn_food(snake', ret)
    /\ game_over' = IF pc' = "spawn_food" THEN game_over ELSE FALSE

\* SnakeGame.reset_game; control continues at ret.
reset_game(ret) ==
    /\ snake' = StartSnake(height, width)
    /\ direction' = "RIGHT"
    /\ score' = 0
    /\ spawn_food(snake', ret)
    /\ game_over' = IF pc' = "spawn_food" THEN game_over ELSE FALSE

\* opposite_directions with the horizontal pair mapped to itself.
opposite_directions_HorizontalSelf(d) ==
    CASE d = "UP" -> "DOWN"
      [] d = "DOWN" -> "UP"
      [] d = "LEFT" -> "LEFT"
      [] d = "RIGHT" -> "RIGHT"

opposite_directions(d) ==
    CASE d = "UP" -> "DOWN"
      [] d = "DOWN" -> "UP"
      [] d = "LEFT" -> "RIGHT"
      [] d = "RIGHT" -> "LEFT"

\* The direction handle_input derives from a key, "None" when it has none.
new_direction(k) ==
    IF k \in {"KEY_UP", "w", "W"} THEN "UP"
    ELSE IF k \in {"KEY_DOWN", "s", "S"} THEN "DOWN"
    ELSE IF k \in {"KEY_LEFT", "a", "A"} THEN "LEFT"
    ELSE IF k \in {"KEY_RIGHT", "d", "D"} THEN "RIGHT"
    ELSE "None"

\* QuitKeys without the upper-case letter.
QuitKeys_LowerOnly == {"q"}

QuitKeys == {"q", "Q"}
RestartKeys == {"r", "R"}

\* handle_input that never stores the new direction.
handle_input_DropsDirection(k, ret, quit) ==
    /\ key' = k
    /\ pc' = (IF k \in QuitKeys THEN quit ELSE ret)
    /\ UNCHANGED direction

\* SnakeGame.handle_input reading key k: on a quit key control goes to
\* quit (the method returns False), otherwise to ret (it returns True).
handle_input(k, ret, quit) ==
    /\ key' = k
    /\ IF k \in QuitKeys
       THEN /\ pc' = quit
            /\ UNCHANGED direction
       ELSE /\ pc' = ret
            /\ direction' =
                 IF /\ new_direction(k) # "None"
                    /\ new_direction(k) # opposite_directions(direction)
                 THEN new_direction(k)
                 ELSE direction

\* game_over_choice that restarts on any key but quit.
game_over_choice_AnyKeyRestarts(k) ==
    IF k \in QuitKeys THEN "quit" ELSE "restart"

\* The three-way branch of handle_game_over on the key it read.
game_over_choice(k) ==
    IF k \in QuitKeys THEN "quit"
    ELSE IF k \in RestartKeys THEN "restart"
    ELSE "wait"

\* The head update_snake computes.
new_head == <<snake[1][1] + value(direction)[1], snake[1][2] + value(direction)[2]>>

\* wall_collision with > in place of >= on both upper limits.
wall_collision_OffByOne(p) ==
    \/ p[1] < 0
    \/ p[1] > game_height
    \/ p[2] < 0
    \/ p[2] > game_width

\* wall_collision that also takes row 0 for a wall.
wall_collision_RowZero(p) ==
    \/ p[1] <= 0
    \/ p[1] >= game_height
    \/ p[2] < 0
    \/ p[2] >= game_width

wall_collision(p) ==
    \/ p[1] < 0
    \/ p[1] >= game_height
    \/ p[2] < 0
    \/ p[2] >= game_width

\* self_collision that never reports a hit.
self_collision_Never(p) == FALSE

\* self_collision that leaves out the tail cell a move would vacate.
self_collision_SkipTail(p) == p \in Range(pop(snake))

self_collision(p) == p \in Range(snake)

\* eat_score with the sign flipped.
eat_score_Minus(sc) == sc - 10

\* eat_score that assigns 10 instead of adding it.
eat_score_Assign(sc) == 10

\* Score after eating.
eat_score(sc) == sc + 10

\* update_snake without the early return on game_over.
update_snake_NoGuard(ret) ==
    IF wall_collision(new_head) \/ self_collision(new_head)
    THEN /\ game_over' = TRUE
         /\ pc' = ret
         /\ UNCHANGED <<snake, food, score, timeout>>
    ELSE IF new_head = food
    THEN /\ snake' = appendleft(snake, new_head)
         /\ score' = eat_score(score)
         /\ spawn_food(snake', ret)
         /\ timeout' = IF pc' = "spawn_food" THEN timeout ELSE speed(score')
         /\ UNCHANGED game_over
    ELSE /\ snake' = pop(appendleft(snake, new_head))
         /\ pc' = ret
         /\ UNCHANGED <<food, score, game_over, timeout>>

\* SnakeGame.update_snake; control continues at ret.
update_snake(ret) ==
    IF game_over
    THEN /\ pc' = ret
         /\ UNCHANGED <<snake, food, score, game_over, timeout>>
    ELSE IF wall_collision(new_head) \/ self_collision(new_head)
    THEN /\ game_over' = TRUE
         /\ pc' = ret
         /\ UNCHANGED <<snake, food, score, timeout>>
    ELSE IF new_head = food
    THEN /\ snake' = appendleft(snake, new_head)
         /\ score' = eat_score(score)
         /\ spawn_food(snake', ret)
         /\ timeout' = IF pc' = "spawn_food" THEN timeout ELSE speed(score')
         /\ UNCHANGED game_over
    ELSE /\ snake' = pop(appendleft(snake, new_head))
         /\ pc' = ret
         /\ UNCHANGED <<food, score, game_over, timeout>>

--------------------------------------------------------------------------
\* SnakeGame.__init__ on a screen of the modelled sizes: setup_screen, then
\* reset_game.
InitGame ==
    /\ \E s \in Screens : height = s[1] /\ width = s[2]
    /\ snake = StartSnake(height, width)
    /\ direction = "RIGHT"
    /\ score = 0
    /\ food \in FreeCells(snake)
    /\ game_over = FALSE
    /\ timeout = 100
    /\ key = Unread

\* ---- the main loop, SnakeGame.run ----
Init == InitGame /\ pc = "handle_input"

\* run: self.handle_input(), break on False.
RunInput ==
    /\ pc = "handle_input"
    /\ \E k \in Keys : handle_input(k, "update_snake", "done")
    /\ UNCHANGED <<height, width, snake, score, food, game_over, timeout>>

\* run: update_snake unless the game is over.
RunUpdate ==
    /\ pc = "update_snake"
    /\ IF ~game_over
       THEN update_snake("draw")
       ELSE pc' = "draw" /\ UNCHANGED <<snake, food, score, game_over, timeout>>
    /\ UNCHANGED <<height, width, direction, key>>

\* run: draw, then enter handle_game_over (blocking input) if the game is
\* over, else loop.
RunDraw ==
    /\ pc = "draw"
    /\ IF game_over
       THEN pc' = "handle_game_over" /\ timeout' = nodelay(0)
       ELSE pc' = "handle_input" /\ UNCHANGED timeout
    /\ key' = Unread
    /\ UNCHANGED <<height, width, snake, direction, score, food, game_over>>

\* handle_game_over: one blocking getch and its branch.
HandleGameOver ==
    /\ pc = "handle_game_over"
    /\ \E k \in BlockingKeys :
         /\ key' = k
         /\ IF game_over_choice(k) = "quit"
            THEN /\ pc' = "done"
                 /\ UNCHANGED <<snake, direction, score, food, game_over, timeout>>
            ELSE IF game_over_choice(k) = "restart"
            THEN /\ reset_game("handle_input")
                 /\ timeout' = IF pc' = "spawn_food" THEN timeout ELSE 100
            ELSE /\ pc' = "handle_game_over"
                 /\ UNCHANGED <<snake, direction, score, food, game_over, timeout>>
    /\ UNCHANGED <<height, width>>

Next == RunInput \/ RunUpdate \/ RunDraw \/ HandleGameOver

Spec == Init /\ [][Next]_vars

\* ---- a client calling the methods of one SnakeGame in any order ----
InitApi == InitGame /\ pc = "api"

ApiCall ==
    /\ pc = "api"
    /\ pc' \in {"call_handle_input", "call_update_snake", "call_reset_game"}
    /\ key' = Unread
    /\ UNCHANGED <<height, width, snake, direction, score, food, game_over, timeout>>

ApiHandleInput ==
    /\ pc = "call_handle_input"
    /\ \E k \in Keys : handle_input(k, "api", "api")
    /\ UNCHANGED <<height, width, snake, score, food, game_over, timeout>>

ApiUpdateSnake ==
    /\ pc = "call_update_snake"
    /\ update_snake("api")
    /\ UNCHANGED <<height, width, direction, key>>

ApiResetGame ==
    /\ pc = "call_reset_game"
    /\ reset_game("api")
    /\ UNCHANGED <<height, width, timeout, key>>

NextApi == ApiCall \/ ApiHandleInput \/ ApiUpdateSnake \/ ApiResetGame

SpecApi == InitApi /\ [][NextApi]_vars

\* ---- the program from main(): size check, construction, first ticks ----
\* Largest terminal (rows, columns) main() is started on.
MaxScreenHeight == 10
MaxScreenWidth == 40

\* The run is followed while the head is fewer than MaxStray cells away from
\* the cell it started on.
MaxStray == 1

\* main's test with the width limit 4 instead of 40.
too_small_Width4(h, w) == h < 10 \/ w < 4

\* main's "Terminal too small" test.
too_small(h, w) == h < 10 \/ w < 40

Abs(n) == IF n < 0 THEN -n ELSE n

Stray ==
    Abs(snake[1][1] - StartSnake(height, width)[1][1])
      + Abs(snake[1][2] - StartSnake(height, width)[1][2])

\* Before main has built the game only the terminal size is known; the
\* fields of the game hold placeholders.
InitMain ==
    /\ height \in 1..MaxScreenHeight
    /\ width \in 1..MaxScreenWidth
    /\ snake = <<>>
    /\ direction = "RIGHT"
    /\ score = 0
    /\ food = <<0, 0>>
    /\ game_over = FALSE
    /\ timeout = nodelay(0)
    /\ key = Unread
    /\ pc = "main"

\* main: refuse a small terminal, else SnakeGame(stdscr) (setup_screen and
\* reset_game) and enter run.  A window without cells makes construction
\* raise (curses.newwin or random.randint).
MainStart ==
    /\ pc = "main"
    /\ IF too_small(height, width)
       THEN /\ pc' = "rejected"
            /\ UNCHANGED <<snake, direction, score, food, game_over, timeout>>
       ELSE IF Cells = {}
       THEN /\ pc' = "error"
            /\ UNCHANGED <<snake, direction, score, food, game_over, timeout>>
       ELSE /\ reset_game("handle_input")
            /\ timeout' = 100
    /\ UNCHANGED <<height, width, key>>

MainRunInput == pc = "handle_input" /\ Stray < MaxStray /\ RunInput

NextMain == MainStart \/ MainRunInput \/ RunUpdate \/ RunDraw

SpecMain == InitMain /\ [][NextMain]_vars

--------------------------------------------------------------------------
\* Properties.

\* C1: in every reachable state the positions of the snake are pairwise
\* distinct.
C1_SnakeDistinct == Cardinality(Range(snake)) = Len(snake)

\* The snake has grown to five cells and bent (it occupies two rows).
C1_Witness ==
    /\ Len(snake) >= 5
    /\ \E i, j \in 1..Len(snake) : snake[i][1] # snake[j][1]
    /\ pc = "handle_input"

\* C2: whenever no spawn_food call is in progress (after construction or
\* reset, after every eating and every non-eating step) the food is on no
\* cell of the snake.
C2_FoodNotOnSnake == pc # "spawn_food" => food \notin Range(snake)

\* A step has eaten and spawn_food has placed the next food.
C2_Witness == score >= 10 /\ pc = "draw" /\ ~game_over

\* C3: a step that eats the last free cell terminates: when the snake
\* occupies every cell of the board, control is not inside spawn_food.
C3_FullBoardStepTerminates ==
    Len(snake) = game_height * game_width => pc # "spawn_food"

\* C4: a step that starts and ends with the game running grows the snake by
\* one exactly when the new head is the food of before the step, and
\* otherwise keeps its length.
C4_LengthRule ==
    [][(pc = "update_snake" /\ ~game_over /\ ~game_over') =>
          Len(snake') = Len(snake) + (IF snake'[1] = food THEN 1 ELSE 0)]_vars

\* A step has just grown the snake.
C4_Witness == pc = "draw" /\ ~game_over /\ Len(snake) = 4

\* Directions d and e point opposite ways.
C5_Opposite(d, e) ==
    /\ value(d)[1] + value(e)[1] = 0
    /\ value(d)[2] + value(e)[2] = 0

\* C5: a movement key for the direction opposite to the current one leaves
\* the direction the next step uses unchanged; a movement key for any other
\* direction makes that direction the one the next step uses.
C5_ReversalRule ==
    [][(pc = "handle_input" /\ new_direction(key') \in Direction) =>
          IF C5_Opposite(direction, new_direction(key'))
          THEN direction' = direction
          ELSE direction' = new_direction(key')]_vars

\* The key for LEFT was read while heading RIGHT and the step is about to
\* run with RIGHT.
C5_Witness ==
    pc = "update_snake" /\ key \in {"KEY_LEFT", "a", "A"} /\ direction = "RIGHT"

\* C6: the score never decreases, except that the restart in
\* handle_game_over sets it to 0.
C6_ScoreMonotone ==
    [][score' >= score \/
       (pc = "handle_game_over" /\ key' \in RestartKeys /\ score' = 0)]_vars

\* A run has scored twice.
C6_Witness == score >= 20 /\ pc = "handle_input"

C8_StepWhenEndedNoOp ==
    [][(pc = "call_update_snake" /\ game_over) =>
          UNCHANGED <<snake, food, score, direction, game_over, timeout>>]_vars

\* update_snake is being called on a game that is over.
C8_Witness == pc = "call_update_snake" /\ game_over

\* C9: the restart key read in handle_game_over yields the start-of-run
\* state: the three-cell snake at the middle of the window heading RIGHT,
\* score 0, running, food on a cell of the window off the snake, delay 100.
C9_RestartState ==
    [][(pc = "handle_game_over" /\ key' \in RestartKeys) =>
          /\ snake' = << <<game_height \div 2, game_width \div 2>>,
                         <<game_height \div 2, game_width \div 2 - 1>>,
                         <<game_height \div 2, game_width \div 2 - 2>> >>
          /\ direction' = "RIGHT"
          /\ score' = 0
          /\ game_over' = FALSE
          /\ food' \in Cells /\ food' \notin Range(snake')
          /\ timeout' = 100
          /\ pc' = "handle_input"]_vars

\* The game has just been restarted.
C9_Witness == pc = "handle_input" /\ key \in RestartKeys /\ ~game_over

\* C10: once the game is over, it stays over with snake, food, score and
\* direction unchanged and no step run, until handle_game_over reads a
\* restart key (full reset, running again) or a quit key (the loop ends);
\* any other key changes nothing.
C10_EndedUntilRestart ==
    [][game_over =>
          IF pc = "handle_game_over" /\ key' \in RestartKeys
          THEN ~game_over' /\ pc' = "handle_input"
          ELSE /\ game_over'
               /\ UNCHANGED <<snake, food, score, direction>>
               /\ pc' \in {"handle_game_over", "done"}
               /\ (pc = "handle_game_over" =>
                      pc' = (IF key' \in QuitKeys THEN "done" ELSE "handle_game_over"))]_vars

\* A key that is neither restart nor quit was read while the game is over.
C10_Witness ==
    pc = "handle_game_over" /\ game_over /\ key \in {"x", "KEY_UP", "w", "d"}

\* The head a step aims at: the current head moved one cell along the
\* current direction.
CandidateHead ==
    <<snake[1][1] + value(direction)[1], snake[1][2] + value(direction)[2]>>

CandidateInBounds ==
    /\ 0 <= CandidateHead[1] /\ CandidateHead[1] < game_height
    /\ 0 <= CandidateHead[2] /\ CandidateHead[2] < game_width

\* C11: a quit key read by handle_input ends the loop before the step of
\* that tick, leaving the game state as it was; a quit key read in
\* handle_game_over ends the loop; once the loop has ended nothing changes.
C11_QuitTerminates ==
    [][/\ pc # "done"
       /\ ((pc \in {"handle_input", "handle_game_over"} /\ key' \in {"q", "Q"}) =>
              /\ pc' = "done"
              /\ UNCHANGED <<snake, food, score, direction, game_over, timeout>>)]_vars

\* The loop has ended on a quit key read while the game was running.
C11_Witness == pc = "done" /\ key \in {"q", "Q"} /\ ~game_over /\ score >= 10

\* C12: a step whose candidate head is outside the window sets game_over and
\* leaves snake, food and score as they were.
C12_WallEndsGame ==
    [][(pc = "update_snake" /\ ~game_over /\ ~CandidateInBounds) =>
          game_over' /\ UNCHANGED <<snake, food, score>>]_vars

\* A step has just ended the game against a wall.
C12_Witness == pc = "draw" /\ game_over /\ ~CandidateInBounds

\* C13: a step whose candidate head is in the window and on any cell of the
\* snake, the tail cell included, sets game_over and leaves snake, food and
\* score as they were.
C13_SelfHitEndsGame ==
    [][(pc = "update_snake" /\ ~game_over /\ CandidateInBounds
          /\ \E i \in 1..Len(snake) : snake[i] = CandidateHead) =>
          game_over' /\ UNCHANGED <<snake, food, score>>]_vars

\* A step has just ended the game on the tail cell.
C13_Witness ==
    pc = "draw" /\ game_over /\ CandidateInBounds /\ CandidateHead = snake[Len(snake)]

\* C14: whenever the program is past main's size check with a game built
\* (every state in which a step can run), the three cells of the start snake
\* lie in the window and the window has a cell left for the first food; a
\* terminal on which that fails is refused by main.
C14_SmallBoardRejected ==
    pc \in {"handle_input", "update_snake", "draw", "handle_game_over", "spawn_food"} =>
        /\ \A i \in 1..3 :
              /\ 0 <= StartSnake(height, width)[i][1]
              /\ StartSnake(height, width)[i][1] < game_height
              /\ 0 <= StartSnake(height, width)[i][2]
              /\ StartSnake(height, width)[i][2] < game_width
        /\ game_height * game_width > 3

\* A step has run on a terminal main accepted.
C14_Witness == pc = "draw" /\ height >= 10 /\ width >= 40 /\ Len(snake) >= 3

CandidateOnSnake == \E i \in 1..Len(snake) : snake[i] = CandidateHead

\* C15: a step whose candidate head is in the window, off the snake and off
\* the food puts the candidate in front of the snake, drops the last cell,
\* and leaves food, score, direction, input delay and the running status
\* unchanged.
C15_PlainMove ==
    [][(pc = "update_snake" /\ ~game_over /\ CandidateInBounds
          /\ ~CandidateOnSnake /\ CandidateHead # food) =>
          /\ Len(snake') = Len(snake)
          /\ snake'[1] = CandidateHead
          /\ \A i \in 2..Len(snake) : snake'[i] = snake[i - 1]
          /\ ~game_over'
          /\ UNCHANGED <<food, score, direction, timeout>>]_vars

\* Two plain steps with no turn have shifted the start snake two cells to
\* the right.
C15_Witness ==
    /\ pc = "draw" /\ ~game_over /\ score = 0 /\ Len(snake) = 3
    /\ \A i \in 1..3 :
          snake[i] = <<game_height \div 2, game_width \div 2 + 3 - i>>

\* C16: game_over becomes true only in a step whose candidate head is
\* outside the window or on the snake; a step whose candidate head is in the
\* window and off the snake leaves the game running; reading a key never
\* ends the game.
C16_EndOnlyByCollision ==
    [][/\ (~game_over /\ game_over') =>
             (pc = "update_snake" /\ (~CandidateInBounds \/ CandidateOnSnake))
       /\ (pc = "update_snake" /\ ~game_over /\ CandidateInBounds /\ ~CandidateOnSnake) =>
             ~game_over'
       /\ (pc = "handle_input" /\ ~game_over) => ~game_over']_vars

\* A movement key was applied and the step of the same tick ended the game.
C16_Witness ==
    pc = "draw" /\ game_over /\ new_direction(key) = direction
       /\ (~CandidateInBounds \/ CandidateOnSnake)

\* C17: in a running tick a key that is not quit is always followed by the
\* step; the direction changes only when handle_input reads a key (or on
\* restart), hence at most once between two steps; and the step moves the
\* head along the direction of the key read in the same tick whenever that
\* key names a direction that is not the reverse of the current one.
C17_InputBeforeStep ==
    [][/\ pc = "handle_input" =>
             pc' = (IF key' \in {"q", "Q"} THEN "done" ELSE "update_snake")
       /\ direction' # direction =>
             (pc = "handle_input" \/ (pc = "handle_game_over" /\ key' \in {"r", "R"}))
       /\ (pc = "update_snake" /\ ~game_over) =>
             /\ pc' \in {"draw", "spawn_food"}
             /\ (new_direction(key) \in Direction
                   /\ ~C5_Opposite(direction, new_direction(key))
                   /\ ~game_over') =>
                     snake'[1] = <<snake[1][1] + value(new_direction(key))[1],
                                   snake[1][2] + value(new_direction(key))[2]>>]_vars

\* The key for UP was read while moving horizontally and the step of that
\* tick has moved the head up.
C17_Witness ==
    /\ pc = "draw" /\ ~game_over /\ key \in {"KEY_UP", "w", "W"}
    /\ snake[1] = <<snake[2][1] - 1, snake[2][2]>>
    /\ snake[3][1] = snake[2][1]

\* C18: in the run loop the candidate head of a step is never the second
\* cell of the snake.
C18_NeverIntoNeck ==
    (pc = "update_snake" /\ ~game_over) => CandidateHead # snake[2]

\* The key for LEFT was read while heading RIGHT and the step of that tick
\* has moved the head right.
C18_Witness ==
    /\ pc = "draw" /\ ~game_over /\ key \in {"KEY_LEFT", "a", "A"}
    /\ snake[1] = <<snake[2][1], snake[2][2] + 1>>

\* C19: every cell of the snake and the food lie in the window.
C19_InsideWindow ==
    /\ \A i \in 1..Len(snake) :
          /\ 0 <= snake[i][1] /\ snake[i][1] < game_height
          /\ 0 <= snake[i][2] /\ snake[i][2] < game_width
    /\ 0 <= food[1] /\ food[1] < game_height
    /\ 0 <= food[2] /\ food[2] < game_width

\* The head is on the last row and last column of a window of two rows and
\* the food is on the first row.
C19_Witness ==
    /\ game_height = 2 /\ snake[1] = <<game_height - 1, game_width - 1>>
    /\ food[1] = 0 /\ pc = "handle_input" /\ score >= 10

\* C20: the score is ten times the number of cells the snake has gained
\* over its start length of three.
C20_ScoreIsGrowth == score = 10 * (Len(snake) - 3)

\* The snake has grown three times.
C20_Witness == score = 30 /\ Len(snake) = 6 /\ pc = "handle_input"

====
